---- MODULE Spec2Model ----
(***************************************************************************)
(* Conference workflow server of src/src/App.tsx (the express application *)
(* from line 1225 on): the relational store, the two middlewares and one  *)
(* action per route.  Every route handler runs to completion on the       *)
(* single JavaScript thread and talks to the store through synchronous    *)
(* better-sqlite3 calls, so a handler is one atomic step.                 *)
(*                                                                         *)
(* Rows keep the columns a handler reads, compares or returns as a        *)
(* decision: ids, foreign keys, role, name, status, type, accepted.       *)
(* Free-text payload columns (title, abstract, file_path, password, ...)  *)
(* are written and read back verbatim and are left out.                   *)
(***************************************************************************)
EXTENDS Integers, Sequences, FiniteSets, Bags, TLC

VARIABLES
  users,         \* table users, row i has id i (AUTOINCREMENT, never deleted)
  conferences,   \* table conferences
  submissions,   \* table submissions
  reviews,       \* table reviews
  documents,     \* table documents
  schedule,      \* table schedule
  foreign_keys,  \* whether the store enforces the FOREIGN KEY clauses
  pending,       \* assign requests received and not yet handled
  client,        \* the admin's browser: its documents list, its requests in flight
  last           \* the request handled last, with its response

vars == <<users, conferences, submissions, reviews, documents, schedule,
          foreign_keys, pending, client, last>>

----------------------------------------------------------------------------
(* Bounds of the model *)

MaxSubmissions == 1
MaxReviews == 2
MaxDocuments == 1
MaxUsers == 5
MaxConferences == 3
MaxPending == 2
MaxRows == 1
MaxListed == 3
MaxAxisDocuments == 2
MaxClicks == 2

----------------------------------------------------------------------------
(* Values *)

\* SQL NULL (JSON null bound as a parameter); row ids start at 1
NULL == 0

\* an id that no row of any table has
NoSuchId == MaxUsers + MaxConferences + MaxSubmissions + MaxReviews + MaxDocuments + 1

\* HTTP status codes of the responses
OK == 200
BadRequest == 400
Unauthorized == 401
Forbidden == 403
ServerError == 500

SubmissionStatuses == {"pending", "under_review", "accepted", "rejected"}
DocumentStatuses == {"pending", "verified", "rejected"}

\* a status string outside both enumerations
Unrecognized == "archived"

\* SQL NULL in a TEXT column
NullText == "NULL"

----------------------------------------------------------------------------
(* Credentials: the bearer token of a request *)

Absent == [kind |-> "absent", id |-> NULL, role |-> "none"]
Invalid == [kind |-> "invalid", id |-> NULL, role |-> "none"]

\* jwt.sign({ id, email, role, name }): the claims the handlers read
Token(u) == [kind |-> "valid", id |-> u.id, role |-> u.role]

\* tokens are issued by register and login only, for rows of users; rows are
\* never deleted and role never changes, so every issued token is one of these
IssuedTokens == {Token(users[i]) : i \in DOMAIN users}

Credentials == {Absent, Invalid} \cup IssuedTokens

NonAdminTokens == {c \in IssuedTokens : c.role # "admin"}
AdminTokens == {c \in IssuedTokens : c.role = "admin"}

----------------------------------------------------------------------------
(* Responses *)

Res(code, err) == [status |-> code, error |-> err]
Success == Res(OK, "")
Next_ == Res(0, "")

authenticateAnyone(cred) == Next_

\* const authenticate = (req, res, next) => ...
authenticate(cred) ==
  IF cred.kind = "absent" THEN Res(Unauthorized, "Unauthorized")
  ELSE IF cred.kind = "invalid" THEN Res(Unauthorized, "Invalid token")
  ELSE Next_

isAdminAlways(cred) == Next_

\* const isAdmin = (req, res, next) => ...
isAdmin(cred) ==
  IF cred.role # "admin" THEN Res(Forbidden, "Forbidden") ELSE Next_

\* the middleware chain authenticate, isAdmin in front of an admin route
adminOnly(cred) ==
  IF authenticate(cred) # Next_ THEN authenticate(cred) ELSE isAdmin(cred)

----------------------------------------------------------------------------
(* Store helpers *)

\* how many rows of reviews hold the pair (submission_id, reviewer_id)
PairCount(revs, submission_id, reviewer_id) ==
  Cardinality({i \in DOMAIN revs :
     /\ revs[i].submission_id = submission_id
     /\ revs[i].reviewer_id = reviewer_id})

Ids(table) == {table[i].id : i \in DOMAIN table}

\* a FOREIGN KEY column accepts NULL, and any value when enforcement is off
FkOk(fk, value, table) == (~fk) \/ value = NULL \/ value \in Ids(table)

Append_(table, row) == Append(table, [row EXCEPT !.id = Len(table) + 1])

Range(s) == {s[i] : i \in DOMAIN s}

\* a SELECT ... WHERE is SelectSeq: the rows that satisfy the test, in rowid order

UserName(us, id) == (CHOOSE u \in Range(us) : u.id = id).name

----------------------------------------------------------------------------
(* Documents *)

listDocumentsUnscoped(us, docs, cred) ==
  IF authenticate(cred) # Next_ THEN [res |-> authenticate(cred), body |-> <<>>]
  ELSE [res |-> Success, body |-> docs]

\* app.get('/api/documents', authenticate, ...)
listDocuments(us, docs, cred) ==
  IF authenticate(cred) # Next_ THEN [res |-> authenticate(cred), body |-> <<>>]
  ELSE IF cred.role = "admin"
    THEN LET Joined(d) == d.user_id \in Ids(us)
             rows == SelectSeq(docs, Joined)
         IN [res |-> Success,
             body |-> [i \in DOMAIN rows |->
                        [id |-> rows[i].id, user_id |-> rows[i].user_id,
                         status |-> rows[i].status, type |-> rows[i].type,
                         accepted |-> rows[i].accepted,
                         user_name |-> UserName(us, rows[i].user_id)]]]
    ELSE LET Own(d) == d.user_id = cred.id
         IN [res |-> Success, body |-> SelectSeq(docs, Own)]

uploadDocumentForCaller(fk, us, docs, cred, user_id) ==
  IF authenticate(cred) # Next_ THEN [res |-> authenticate(cred), documents |-> docs]
  ELSE LET docType == IF cred.role = "admin" THEN "admin_upload" ELSE "user_upload"
       IN [res |-> Success,
           documents |-> Append_(docs,
              [id |-> NULL, user_id |-> cred.id, status |-> "pending",
               type |-> docType, accepted |-> 0])]

\* app.post('/api/documents', authenticate, upload.single('file'), ...)
uploadDocument(fk, us, docs, cred, user_id) ==
  IF authenticate(cred) # Next_ THEN [res |-> authenticate(cred), documents |-> docs]
  ELSE LET targetUserId == IF cred.role = "admin" THEN user_id ELSE cred.id
           docType == IF cred.role = "admin" THEN "admin_upload" ELSE "user_upload"
       IN IF ~FkOk(fk, targetUserId, us)
            THEN [res |-> Res(ServerError, "SqliteError"), documents |-> docs]
            ELSE [res |-> Success,
                  documents |-> Append_(docs,
                     [id |-> NULL, user_id |-> targetUserId, status |-> "pending",
                      type |-> docType, accepted |-> 0])]

verifyDocumentEveryRow(docs, cred, id, status) ==
  IF adminOnly(cred) # Next_ THEN [res |-> adminOnly(cred), documents |-> docs]
  ELSE [res |-> Success,
        documents |-> [i \in DOMAIN docs |-> [docs[i] EXCEPT !.status = status]]]

verifyDocumentPendingOnly(docs, cred, id, status) ==
  IF adminOnly(cred) # Next_ THEN [res |-> adminOnly(cred), documents |-> docs]
  ELSE [res |-> Success,
        documents |-> [i \in DOMAIN docs |->
           IF docs[i].id = id /\ docs[i].status = "pending"
             THEN [docs[i] EXCEPT !.status = status] ELSE docs[i]]]

\* app.patch('/api/documents/:id/verify', authenticate, isAdmin, ...)
verifyDocument(docs, cred, id, status) ==
  IF adminOnly(cred) # Next_ THEN [res |-> adminOnly(cred), documents |-> docs]
  ELSE [res |-> Success,
        documents |-> [i \in DOMAIN docs |->
           IF docs[i].id = id THEN [docs[i] EXCEPT !.status = status] ELSE docs[i]]]

acceptDocumentOwnerOrAdmin(docs, cred, id) ==
  IF authenticate(cred) # Next_ THEN [res |-> authenticate(cred), documents |-> docs]
  ELSE [res |-> Success,
        documents |-> [i \in DOMAIN docs |->
           IF docs[i].id = id /\ (docs[i].user_id = cred.id \/ cred.role = "admin")
             THEN [docs[i] EXCEPT !.accepted = 1] ELSE docs[i]]]

acceptDocumentToggle(docs, cred, id) ==
  IF authenticate(cred) # Next_ THEN [res |-> authenticate(cred), documents |-> docs]
  ELSE [res |-> Success,
        documents |-> [i \in DOMAIN docs |->
           IF docs[i].id = id /\ docs[i].user_id = cred.id
             THEN [docs[i] EXCEPT !.accepted = 1 - docs[i].accepted] ELSE docs[i]]]

acceptDocumentAnyOwner(docs, cred, id) ==
  IF authenticate(cred) # Next_ THEN [res |-> authenticate(cred), documents |-> docs]
  ELSE [res |-> Success,
        documents |-> [i \in DOMAIN docs |->
           IF docs[i].id = id THEN [docs[i] EXCEPT !.accepted = 1] ELSE docs[i]]]

\* app.patch('/api/documents/:id/accept', authenticate, ...)
acceptDocument(docs, cred, id) ==
  IF authenticate(cred) # Next_ THEN [res |-> authenticate(cred), documents |-> docs]
  ELSE [res |-> Success,
        documents |-> [i \in DOMAIN docs |->
           IF docs[i].id = id /\ docs[i].user_id = cred.id
             THEN [docs[i] EXCEPT !.accepted = 1] ELSE docs[i]]]

----------------------------------------------------------------------------
(* Submissions and reviews *)

\* (SELECT GROUP_CONCAT(u2.name, ', ') FROM reviews r JOIN users u2 ON
\*  r.reviewer_id = u2.id WHERE r.submission_id = s.id): the names, in row order
ReviewerNames(us, revs, sid) ==
  LET Of(r) == r.submission_id = sid /\ r.reviewer_id \in Ids(us)
      rows == SelectSeq(revs, Of)
  IN [i \in DOMAIN rows |-> UserName(us, rows[i].reviewer_id)]

ConferenceTitle(confs, id) == (CHOOSE c \in Range(confs) : c.id = id).title

\* app.get('/api/submissions', authenticate, ...)
listSubmissions(us, confs, subs, revs, cred) ==
  IF authenticate(cred) # Next_ THEN [res |-> authenticate(cred), body |-> <<>>]
  ELSE IF cred.role = "admin"
    THEN LET Joined(s) == s.user_id \in Ids(us) /\ s.conference_id \in Ids(confs)
             rows == SelectSeq(subs, Joined)
         IN [res |-> Success,
             body |-> [i \in DOMAIN rows |->
                        [id |-> rows[i].id, conference_id |-> rows[i].conference_id,
                         user_id |-> rows[i].user_id, status |-> rows[i].status,
                         author_name |-> UserName(us, rows[i].user_id),
                         conference_title |->
                            ConferenceTitle(confs, rows[i].conference_id),
                         reviewers |-> ReviewerNames(us, revs, rows[i].id)]]]
    ELSE LET Own(s) == s.conference_id \in Ids(confs) /\ s.user_id = cred.id
             rows == SelectSeq(subs, Own)
         IN [res |-> Success,
             body |-> [i \in DOMAIN rows |->
                        [id |-> rows[i].id, conference_id |-> rows[i].conference_id,
                         user_id |-> rows[i].user_id, status |-> rows[i].status,
                         conference_title |->
                            ConferenceTitle(confs, rows[i].conference_id)]]]

\* SELECT * FROM reviews WHERE submission_id = ? AND reviewer_id = ?
\* (a comparison with NULL is never true)
existingUnchecked(revs, submission_id, reviewer_id) == FALSE

existing(revs, submission_id, reviewer_id) ==
  \E r \in Range(revs) :
     /\ submission_id # NULL /\ r.submission_id = submission_id
     /\ reviewer_id # NULL /\ r.reviewer_id = reviewer_id

\* INSERT INTO reviews (submission_id, reviewer_id[, comments, score])
insertReview(fk, us, subs, revs, submission_id, reviewer_id, comments, score) ==
  IF ~(FkOk(fk, submission_id, subs) /\ FkOk(fk, reviewer_id, us))
    THEN [res |-> Res(ServerError, "SqliteError"), reviews |-> revs]
    ELSE [res |-> Success,
          reviews |-> Append_(revs,
             [id |-> NULL, submission_id |-> submission_id,
              reviewer_id |-> reviewer_id, comments |-> comments, score |-> score])]

\* app.post('/api/submissions/:id/assign', authenticate, isAdmin, ...): the
\* SELECT reads the table seen, the INSERT writes the table revs
assignReviewerAt(fk, us, subs, seen, revs, cred, submission_id, reviewer_id) ==
  IF adminOnly(cred) # Next_ THEN [res |-> adminOnly(cred), reviews |-> revs]
  ELSE IF existing(seen, submission_id, reviewer_id)
    THEN [res |-> Res(BadRequest, "Reviewer already assigned"), reviews |-> revs]
    ELSE insertReview(fk, us, subs, revs, submission_id, reviewer_id, NullText, NULL)

tableReadAtArrival(atArrival, atHandling) == atArrival

\* the handler has no await between the SELECT and the INSERT: the SELECT reads
\* the table as it is when the handler runs, not as it was when the request came
tableRead(atArrival, atHandling) == atHandling

assignReviewer(fk, us, subs, revs, cred, submission_id, reviewer_id) ==
  assignReviewerAt(fk, us, subs, revs, revs, cred, submission_id, reviewer_id)

\* app.post('/api/reviews', authenticate, isAdmin, ...)
createReview(fk, us, subs, revs, cred, submission_id, comments, score) ==
  IF adminOnly(cred) # Next_ THEN [res |-> adminOnly(cred), reviews |-> revs]
  ELSE insertReview(fk, us, subs, revs, submission_id, cred.id, comments, score)

createSubmissionColumnsSwapped(fk, confs, subs, cred, conference_id) ==
  IF authenticate(cred) # Next_ THEN [res |-> authenticate(cred), submissions |-> subs]
  ELSE [res |-> Success,
        submissions |-> Append_(subs,
           [id |-> NULL, conference_id |-> cred.id, user_id |-> conference_id,
            status |-> "pending"])]

\* app.post('/api/submissions', authenticate, upload.single('file'), ...)
createSubmission(fk, confs, subs, cred, conference_id) ==
  IF authenticate(cred) # Next_ THEN [res |-> authenticate(cred), submissions |-> subs]
  ELSE IF ~FkOk(fk, conference_id, confs)
    THEN [res |-> Res(ServerError, "SqliteError"), submissions |-> subs]
    ELSE [res |-> Success,
          submissions |-> Append_(subs,
             [id |-> NULL, conference_id |-> conference_id, user_id |-> cred.id,
              status |-> "pending"])]

setStatusAnyCaller(subs, cred, id, status) ==
  IF authenticate(cred) # Next_ THEN [res |-> authenticate(cred), submissions |-> subs]
  ELSE [res |-> Success,
        submissions |-> [i \in DOMAIN subs |->
           IF subs[i].id = id THEN [subs[i] EXCEPT !.status = status] ELSE subs[i]]]

setStatusForwardOnly(subs, cred, id, status) ==
  IF adminOnly(cred) # Next_ THEN [res |-> adminOnly(cred), submissions |-> subs]
  ELSE [res |-> Success,
        submissions |-> [i \in DOMAIN subs |->
           IF /\ subs[i].id = id
              /\ subs[i].status \notin {"accepted", "rejected"}
              /\ (status = "pending" => subs[i].status = "pending")
             THEN [subs[i] EXCEPT !.status = status] ELSE subs[i]]]

\* app.patch('/api/submissions/:id/status', authenticate, isAdmin, ...)
setStatus(subs, cred, id, status) ==
  IF adminOnly(cred) # Next_ THEN [res |-> adminOnly(cred), submissions |-> subs]
  ELSE [res |-> Success,
        submissions |-> [i \in DOMAIN subs |->
           IF subs[i].id = id THEN [subs[i] EXCEPT !.status = status] ELSE subs[i]]]

\* app.get('/api/submissions/:id/reviews', authenticate, ...)
listReviews(us, revs, cred, id) ==
  IF authenticate(cred) # Next_ THEN [res |-> authenticate(cred), body |-> <<>>]
  ELSE LET Of(r) == r.reviewer_id \in Ids(us) /\ r.submission_id = id
           rows == SelectSeq(revs, Of)
       IN [res |-> Success,
           body |-> [i \in DOMAIN rows |->
                      [id |-> rows[i].id, submission_id |-> rows[i].submission_id,
                       reviewer_id |-> rows[i].reviewer_id,
                       comments |-> rows[i].comments, score |-> rows[i].score,
                       reviewer_name |-> UserName(us, rows[i].reviewer_id)]]]

----------------------------------------------------------------------------
(* Users and conferences *)

updateProfilePromoting(us, cred, name) ==
  IF authenticate(cred) # Next_ THEN [res |-> authenticate(cred), users |-> us]
  ELSE [res |-> Success,
        users |-> [i \in DOMAIN us |->
           IF us[i].id = cred.id
             THEN [us[i] EXCEPT !.name = name, !.role = "admin"] ELSE us[i]]]

\* app.patch('/api/profile', authenticate, upload.single('profile_picture'), ...)
updateProfile(us, cred, name) ==
  IF authenticate(cred) # Next_ THEN [res |-> authenticate(cred), users |-> us]
  ELSE [res |-> Success,
        users |-> [i \in DOMAIN us |->
           IF us[i].id = cred.id THEN [us[i] EXCEPT !.name = name] ELSE us[i]]]

registerUnchecked(us, email, name) ==
  LET row == [id |-> Len(us) + 1, email |-> email, role |-> "user", name |-> name]
  IN [res |-> Success, users |-> Append(us, row), token |-> Token(row)]

\* app.post('/api/auth/register', ...): email is UNIQUE (a NULL email never
\* collides), role defaults to 'user'; the response carries
\* jwt.sign({ id: result.lastInsertRowid, email, role: 'user', name })
register(us, email, name) ==
  IF email # NullText /\ \E u \in Range(us) : u.email = email
    THEN [res |-> Res(BadRequest, "Email already exists"), users |-> us,
          token |-> Absent]
    ELSE LET row == [id |-> Len(us) + 1, email |-> email, role |-> "user",
                     name |-> name]
         IN [res |-> Success, users |-> Append(us, row), token |-> Token(row)]

\* app.post('/api/conferences', authenticate, isAdmin, ...)
createConference(confs, cred, title) ==
  IF adminOnly(cred) # Next_ THEN [res |-> adminOnly(cred), conferences |-> confs]
  ELSE [res |-> Success,
        conferences |-> Append_(confs, [id |-> NULL, title |-> title])]

\* app.post('/api/schedule', authenticate, isAdmin, ...)
createSchedule(fk, confs, sched, cred, conference_id, title) ==
  IF adminOnly(cred) # Next_ THEN [res |-> adminOnly(cred), schedule |-> sched]
  ELSE IF ~FkOk(fk, conference_id, confs)
    THEN [res |-> Res(ServerError, "SqliteError"), schedule |-> sched]
    ELSE [res |-> Success,
          schedule |-> Append_(sched,
             [id |-> NULL, conference_id |-> conference_id, title |-> title])]

----------------------------------------------------------------------------
(* State *)

\* the rows the seed inserts (lines 1305-1367)
SeedUsers ==
  << [id |-> 1, email |-> "admin@confmaster.com", role |-> "admin",
      name |-> "System Admin"],
     [id |-> 2, email |-> "user@example.com", role |-> "user",
      name |-> "John Doe"],
     [id |-> 3, email |-> "researcher@uni.edu", role |-> "user",
      name |-> "Dr. Sarah Smith"],
     [id |-> 4, email |-> "reviewer@science.org", role |-> "admin",
      name |-> "Prof. Alan Turing"] >>

SeedConferences ==
  << [id |-> 1, title |-> "International AI Conference 2026"],
     [id |-> 2, title |-> "Global Sustainability Summit"] >>

SeedSchedule ==
  << [id |-> 1, conference_id |-> 1, title |-> "Opening Keynote: The Future of AGI"],
     [id |-> 2, conference_id |-> 1, title |-> "Neural Architecture Search Workshop"] >>

\* rows inserted one after the other, each taking the next id
RECURSIVE AppendAll(_, _)
AppendAll(table, rows) ==
  IF rows = <<>> THEN table
  ELSE AppendAll(Append_(table, Head(rows)), Tail(rows))

bootstrapUnguarded(us, confs, sched) ==
  [users |-> AppendAll(us, SeedUsers),
   conferences |-> AppendAll(confs, SeedConferences),
   schedule |-> AppendAll(sched, SeedSchedule)]

\* const adminExists = ...; if (!adminExists) { ... }: the module's start-up
\* code, run each time the process starts on the database file (the schedule
\* rows name conference 1, which exists once the two conferences are in)
bootstrap(us, confs, sched) ==
  IF \E u \in Range(us) : u.role = "admin"
    THEN [users |-> us, conferences |-> confs, schedule |-> sched]
    ELSE [users |-> AppendAll(us, SeedUsers),
          conferences |-> AppendAll(confs, SeedConferences),
          schedule |-> AppendAll(sched, SeedSchedule)]

\* the request handled last: route, credential, the :id of the URL (NULL when
\* the route has none) and the response
Last(op, cred, id, res) == [op |-> op, cred |-> cred, id |-> id, res |-> res]

NoRequest == Last("none", Absent, NULL, Next_)

\* the App component before it is mounted: the initial values of useState, no
\* request sent, no click made
NoClient ==
  [mounted |-> FALSE, submissions |-> <<>>, documents |-> <<>>,
   schedule |-> <<>>, selectedConf |-> NULL, isSubmitting |-> FALSE,
   inflight |-> EmptyBag, clicks |-> 0]

Init ==
  /\ users = SeedUsers
  /\ conferences = SeedConferences
  /\ submissions = <<>>
  /\ reviews = <<>>
  /\ documents = <<>>
  /\ schedule = SeedSchedule
  /\ foreign_keys \in BOOLEAN
  /\ pending = EmptyBag
  /\ client = NoClient
  /\ last = NoRequest

\* a new database file, after CREATE TABLE IF NOT EXISTS and before the seed
InitFresh ==
  /\ users = <<>>
  /\ conferences = <<>>
  /\ submissions = <<>>
  /\ reviews = <<>>
  /\ documents = <<>>
  /\ schedule = <<>>
  /\ foreign_keys \in BOOLEAN
  /\ pending = EmptyBag
  /\ client = NoClient
  /\ last = NoRequest

----------------------------------------------------------------------------
(* Actions: one per route *)

ListDocuments(cred) ==
  /\ last' = Last("listDocuments", cred, NULL,
                  listDocuments(users, documents, cred).res)
  /\ UNCHANGED <<client, users, conferences, submissions, reviews, documents,
                 foreign_keys, pending, schedule>>

UploadDocument(cred, user_id) ==
  LET r == uploadDocument(foreign_keys, users, documents, cred, user_id)
  IN /\ documents' = r.documents
     /\ last' = Last("uploadDocument", cred, NULL, r.res)
     /\ UNCHANGED <<client, users, conferences, submissions, reviews, foreign_keys,
                    pending, schedule>>

VerifyDocument(cred, id, status) ==
  LET r == verifyDocument(documents, cred, id, status)
  IN /\ documents' = r.documents
     /\ last' = Last("verifyDocument", cred, id, r.res)
     /\ UNCHANGED <<client, users, conferences, submissions, reviews, foreign_keys,
                    pending, schedule>>

AcceptDocument(cred, id) ==
  LET r == acceptDocument(documents, cred, id)
  IN /\ documents' = r.documents
     /\ last' = Last("acceptDocument", cred, id, r.res)
     /\ UNCHANGED <<client, users, conferences, submissions, reviews, foreign_keys,
                    pending, schedule>>

ListSubmissions(cred) ==
  /\ last' = Last("listSubmissions", cred, NULL,
                  listSubmissions(users, conferences, submissions, reviews,
                                  cred).res)
  /\ UNCHANGED <<client, users, conferences, submissions, reviews, documents,
                 foreign_keys, pending, schedule>>

CreateSubmission(cred, conference_id) ==
  LET r == createSubmission(foreign_keys, conferences, submissions, cred,
                            conference_id)
  IN /\ submissions' = r.submissions
     /\ last' = Last("createSubmission", cred, NULL, r.res)
     /\ UNCHANGED <<client, users, conferences, reviews, documents, foreign_keys,
                    pending, schedule>>

SetStatus(cred, id, status) ==
  LET r == setStatus(submissions, cred, id, status)
  IN /\ submissions' = r.submissions
     /\ last' = Last("setStatus", cred, id, r.res)
     /\ UNCHANGED <<client, users, conferences, reviews, documents, foreign_keys,
                    pending, schedule>>

AssignReviewer(cred, submission_id, reviewer_id) ==
  LET r == assignReviewer(foreign_keys, users, submissions, reviews, cred,
                          submission_id, reviewer_id)
  IN /\ reviews' = r.reviews
     /\ last' = Last("assignReviewer", cred, submission_id, r.res)
     /\ UNCHANGED <<client, users, conferences, submissions, documents, foreign_keys,
                    pending, schedule>>

CreateReview(cred, submission_id, comments, score) ==
  LET r == createReview(foreign_keys, users, submissions, reviews, cred,
                        submission_id, comments, score)
  IN /\ reviews' = r.reviews
     /\ last' = Last("createReview", cred, NULL, r.res)
     /\ UNCHANGED <<client, users, conferences, submissions, documents, foreign_keys,
                    pending, schedule>>

ListReviews(cred, id) ==
  /\ last' = Last("listReviews", cred, id,
                  listReviews(users, reviews, cred, id).res)
  /\ UNCHANGED <<client, users, conferences, submissions, reviews, documents,
                 foreign_keys, pending, schedule>>

UpdateProfile(cred, name) ==
  LET r == updateProfile(users, cred, name)
  IN /\ users' = r.users
     /\ last' = Last("updateProfile", cred, NULL, r.res)
     /\ UNCHANGED <<client, conferences, submissions, reviews, documents, foreign_keys,
                    pending, schedule>>

Register(email, name) ==
  LET r == register(users, email, name)
  IN /\ users' = r.users
     /\ last' = Last("register", Absent, NULL, r.res)
     /\ UNCHANGED <<client, conferences, submissions, reviews, documents, foreign_keys,
                    pending, schedule>>

CreateSchedule(cred, conference_id, title) ==
  LET r == createSchedule(foreign_keys, conferences, schedule, cred,
                          conference_id, title)
  IN /\ schedule' = r.schedule
     /\ last' = Last("createSchedule", cred, NULL, r.res)
     /\ UNCHANGED <<client, users, conferences, submissions, reviews, documents,
                    foreign_keys, pending>>

\* the process starts (again): the start-up code runs on the database file,
\* and the requests the previous process had not handled are gone
Bootstrap ==
  LET r == bootstrap(users, conferences, schedule)
  IN /\ users' = r.users
     /\ conferences' = r.conferences
     /\ schedule' = r.schedule
     /\ pending' = EmptyBag
     /\ last' = Last("bootstrap", Absent, NULL, Next_)
     /\ UNCHANGED <<client, submissions, reviews, documents, foreign_keys>>

CreateConference(cred, title) ==
  LET r == createConference(conferences, cred, title)
  IN /\ conferences' = r.conferences
     /\ last' = Last("createConference", cred, NULL, r.res)
     /\ UNCHANGED <<client, users, submissions, reviews, documents, foreign_keys,
                    pending, schedule>>

\* an assign request reaches the server: express.json() reads its body before
\* the route's middlewares and handler run
ReceiveAssign(cred, submission_id, reviewer_id) ==
  /\ pending' = pending (+) SetToBag({[cred |-> cred,
                                       submission_id |-> submission_id,
                                       reviewer_id |-> reviewer_id,
                                       arrival |-> reviews]})
  /\ UNCHANGED <<client, users, conferences, submissions, reviews, documents,
                 foreign_keys, schedule, last>>

\* the route of a received assign request runs, in any order of arrival
HandleAssign(req) ==
  LET r == assignReviewerAt(foreign_keys, users, submissions,
                            tableRead(req.arrival, reviews), reviews, req.cred,
                            req.submission_id, req.reviewer_id)
  IN /\ pending' = pending (-) SetToBag({req})
     /\ reviews' = r.reviews
     /\ last' = Last("assignReviewer", req.cred, req.submission_id, r.res)
     /\ UNCHANGED <<client, users, conferences, submissions, documents, foreign_keys,
                    schedule>>

----------------------------------------------------------------------------
(* The browser of the seeded admin: the App component's submissions and
   documents lists, its schedule list, the two conference modals, and its
   fetch() calls in flight. The conferences and users lists are not kept. *)

ClientToken == Token(SeedUsers[1])

\* a fetch() in flight: the request until the server has handled it, then the
\* response, which carries res.ok and the body the handler produced
Message(kind, stage, id, ok, body) ==
  [kind |-> kind, stage |-> stage, id |-> id, ok |-> ok, body |-> body]

Request(kind, id) == Message(kind, "request", id, FALSE, <<>>)

Sent(bag, msg) == bag (+) SetToBag({msg})
Gone(bag, msg) == bag (-) SetToBag({msg})

\* const fetchSubmissions = async () => { const res = await fetch(...) ... }
fetchSubmissions(bag) == Sent(bag, Request("listSubmissions", NULL))

\* const fetchDocuments = async () => { const res = await fetch(...) ... }
fetchDocuments(bag) == Sent(bag, Request("listDocuments", NULL))

\* const fetchSchedule = async (confId) => { ... }
fetchSchedule(bag, confId) == Sent(bag, Request("listSchedule", confId))

\* app.get('/api/conferences/:id/schedule', ...): the rows of the conference
\* (ORDER BY start_time is the row order for the rows kept here)
listSchedule(sched, id) ==
  LET Of(r) == r.conference_id = id
  IN [res |-> Success, body |-> SelectSeq(sched, Of)]

\* {selectedConf && !isSubmitting && ( ... schedule modal ... )}
ScheduleModalShown(c) == c.selectedConf # NULL /\ ~c.isSubmitting

\* {isSubmitting && selectedConf && ( ... submit modal ... )}
SubmitModalShown(c) == c.isSubmitting /\ c.selectedConf # NULL

closeSubmitModalAndSchedule(c) ==
  [c EXCEPT !.isSubmitting = FALSE, !.selectedConf = NULL]

\* setIsSubmitting(false), of Cancel and of handleSubmission when res.ok
closeSubmitModal(c) == [c EXCEPT !.isSubmitting = FALSE]

\* useEffect(() => { if (token) { ... fetchSubmissions(); fetchDocuments(); } })
ClientMount ==
  /\ ~client.mounted
  /\ client' = [client EXCEPT
        !.mounted = TRUE,
        !.inflight = fetchDocuments(fetchSubmissions(client.inflight))]
  /\ UNCHANGED <<users, conferences, submissions, reviews, documents, schedule,
                 foreign_keys, pending, last>>

\* handleDocUpload, by the admin for user 2: the POST is sent
ClientUpload ==
  /\ client.mounted
  /\ client.clicks < MaxClicks
  /\ client' = [client EXCEPT
        !.clicks = @ + 1,
        !.inflight = Sent(@, Request("uploadDocument", 2))]
  /\ UNCHANGED <<users, conferences, submissions, reviews, documents, schedule,
                 foreign_keys, pending, last>>

\* verifyDoc(doc.id, 'verified'), from the button shown for a row of the local
\* list whose status is pending: the PATCH is sent
ClientVerify(id) ==
  /\ client.mounted
  /\ client.clicks < MaxClicks
  /\ \E d \in DOMAIN client.documents :
        client.documents[d].id = id /\ client.documents[d].status = "pending"
  /\ client' = [client EXCEPT
        !.clicks = @ + 1,
        !.inflight = Sent(@, Request("verifyDocument", id))]
  /\ UNCHANGED <<users, conferences, submissions, reviews, documents, schedule,
                 foreign_keys, pending, last>>

\* View Schedule: setSelectedConf(conf); fetchSchedule(conf.id)
ClickViewSchedule(conf) ==
  /\ client.mounted
  /\ client.clicks < MaxClicks
  /\ client' = [client EXCEPT
        !.clicks = @ + 1,
        !.selectedConf = conf,
        !.inflight = fetchSchedule(@, conf)]
  /\ UNCHANGED <<users, conferences, submissions, reviews, documents, schedule,
                 foreign_keys, pending, last>>

\* Submit Paper of a conference card: setSelectedConf(conf); setIsSubmitting(true)
ClickSubmitPaper(conf) ==
  /\ client.mounted
  /\ client' = [client EXCEPT !.selectedConf = conf, !.isSubmitting = TRUE]
  /\ UNCHANGED <<users, conferences, submissions, reviews, documents, schedule,
                 foreign_keys, pending, last>>

\* Close (and the X) of the schedule modal: setSelectedConf(null)
ClickClose ==
  /\ ScheduleModalShown(client)
  /\ client' = [client EXCEPT !.selectedConf = NULL]
  /\ UNCHANGED <<users, conferences, submissions, reviews, documents, schedule,
                 foreign_keys, pending, last>>

\* Cancel of the submit modal: setIsSubmitting(false)
ClickCancel ==
  /\ SubmitModalShown(client)
  /\ client' = closeSubmitModal(client)
  /\ UNCHANGED <<users, conferences, submissions, reviews, documents, schedule,
                 foreign_keys, pending, last>>

\* handleSubmission, from the form of the submit modal: the POST is sent
ClientSubmit ==
  /\ SubmitModalShown(client)
  /\ client.clicks < MaxClicks
  /\ client' = [client EXCEPT
        !.clicks = @ + 1,
        !.inflight = Sent(@, Request("createSubmission", client.selectedConf))]
  /\ UNCHANGED <<users, conferences, submissions, reviews, documents, schedule,
                 foreign_keys, pending, last>>

\* the server handles a request of the client, in any order of arrival, and
\* its response is on the way
ServerHandle(msg) ==
  /\ msg.stage = "request"
  /\ LET docs == IF msg.kind = "uploadDocument"
                   THEN uploadDocument(foreign_keys, users, documents,
                                       ClientToken, msg.id)
                 ELSE IF msg.kind = "verifyDocument"
                   THEN verifyDocument(documents, ClientToken, msg.id, "verified")
                 ELSE [res |-> Success, documents |-> documents]
         subs == IF msg.kind = "createSubmission"
                   THEN createSubmission(foreign_keys, conferences, submissions,
                                         ClientToken, msg.id)
                   ELSE [res |-> Success, submissions |-> submissions]
         read == IF msg.kind = "listDocuments"
                   THEN listDocuments(users, documents, ClientToken)
                 ELSE IF msg.kind = "listSubmissions"
                   THEN listSubmissions(users, conferences, submissions, reviews,
                                        ClientToken)
                 ELSE IF msg.kind = "listSchedule"
                   THEN listSchedule(schedule, msg.id)
                 ELSE [res |-> Success, body |-> <<>>]
         res == IF msg.kind \in {"uploadDocument", "verifyDocument"} THEN docs.res
                ELSE IF msg.kind = "createSubmission" THEN subs.res
                ELSE read.res
     IN /\ documents' = docs.documents
        /\ submissions' = subs.submissions
        /\ last' = Last(msg.kind, ClientToken, msg.id, res)
        /\ client' = [client EXCEPT !.inflight =
              Sent(Gone(@, msg),
                   Message(msg.kind, "response", msg.id, res = Success, read.body))]
  /\ UNCHANGED <<users, conferences, reviews, schedule, foreign_keys, pending>>

\* a response reaches the client, in any order: that of a listing overwrites
\* the local list (setSubmissions(data), setDocuments(data),
\* setSchedule(data)); that of a write starts the refetch, in handleDocUpload
\* and handleSubmission only if (res.ok), and handleSubmission also closes
\* the submit modal
ClientReceive(msg) ==
  /\ msg.stage = "response"
  /\ client' =
       LET c == [client EXCEPT !.inflight = Gone(@, msg)]
       IN IF msg.kind = "listDocuments" THEN [c EXCEPT !.documents = msg.body]
          ELSE IF msg.kind = "listSubmissions"
            THEN [c EXCEPT !.submissions = msg.body]
          ELSE IF msg.kind = "listSchedule" THEN [c EXCEPT !.schedule = msg.body]
          ELSE IF msg.kind = "verifyDocument"
            THEN [c EXCEPT !.inflight = fetchDocuments(@)]
          ELSE IF msg.kind = "uploadDocument"
            THEN IF msg.ok THEN [c EXCEPT !.inflight = fetchDocuments(@)] ELSE c
          ELSE IF msg.ok
            THEN [closeSubmitModal(c) EXCEPT !.inflight = fetchSubmissions(@)]
            ELSE c
  /\ UNCHANGED <<users, conferences, submissions, reviews, documents, schedule,
                 foreign_keys, pending, last>>

----------------------------------------------------------------------------
(* Inputs of the requests *)

\* the callers: no token, a bad token, and the tokens of the seeded admin (1)
\* and of the two seeded users (2, 3)
CallerIds == {1, 2, 3}
ValidCallers == {c \in IssuedTokens : c.id \in CallerIds}
Callers == {Absent, Invalid} \cup ValidCallers

\* the :id of a request: the ids the table can hold and one it cannot
SubmissionIdInputs == 1..(MaxSubmissions + 1)
DocumentIdInputs == 1..(MaxDocuments + 1)
SubmissionStatusInputs == SubmissionStatuses \cup {Unrecognized}
DocumentStatusInputs == DocumentStatuses \cup {Unrecognized}

\* rows inserted since the seed
Inserted ==
  (Len(users) - Len(SeedUsers)) + (Len(conferences) - Len(SeedConferences))
  + Len(submissions) + Len(reviews) + Len(documents)

----------------------------------------------------------------------------
(* Specifications *)

\* every route that writes, and the listings
Next ==
  \/ \E cred \in Callers : ListSubmissions(cred)
  \/ \E cred \in Callers : ListDocuments(cred)
  \/ \E cred \in Callers, id \in SubmissionIdInputs : ListReviews(cred, id)
  \/ \E cred \in Callers, conference_id \in {1} :
        Inserted < MaxRows /\ CreateSubmission(cred, conference_id)
  \/ \E cred \in Callers, id \in SubmissionIdInputs, status \in {"accepted"} :
        SetStatus(cred, id, status)
  \/ \E cred \in Callers, id \in SubmissionIdInputs, reviewer_id \in {2} :
        Inserted < MaxRows /\ AssignReviewer(cred, id, reviewer_id)
  \/ \E cred \in Callers, id \in SubmissionIdInputs :
        Inserted < MaxRows /\ CreateReview(cred, id, "Good paper", 5)
  \/ \E cred \in Callers, user_id \in {2} :
        Inserted < MaxRows /\ UploadDocument(cred, user_id)
  \/ \E cred \in Callers, id \in DocumentIdInputs, status \in {"verified"} :
        VerifyDocument(cred, id, status)
  \/ \E cred \in Callers, id \in DocumentIdInputs : AcceptDocument(cred, id)
  \/ \E cred \in {Absent, Invalid, Token(SeedUsers[2])} : UpdateProfile(cred, "Renamed")
  \/ \E email \in {"user@example.com", "new@example.com"} :
        Inserted < MaxRows /\ Register(email, "New User")
  \/ \E cred \in Callers : Inserted < MaxRows /\ CreateConference(cred, "Workshop")

Spec == Init /\ [][Next]_vars

\* the document routes
NextDoc ==
  \/ \E cred \in Callers : ListDocuments(cred)
  \/ \E cred \in Callers, user_id \in {2, NULL, NoSuchId} :
        Len(documents) < MaxDocuments /\ UploadDocument(cred, user_id)
  \/ \E cred \in Callers, id \in DocumentIdInputs, status \in DocumentStatusInputs :
        VerifyDocument(cred, id, status)
  \/ \E cred \in Callers, id \in DocumentIdInputs : AcceptDocument(cred, id)

SpecDoc == Init /\ [][NextDoc]_vars

\* the listings, over the rows the creating routes insert
NextList ==
  \/ \E cred \in Callers : ListSubmissions(cred)
  \/ \E cred \in Callers : ListDocuments(cred)
  \/ \E cred \in ValidCallers, conference_id \in {1, NULL, NoSuchId} :
        /\ Len(submissions) + Len(documents) + Len(reviews) < MaxListed
        /\ CreateSubmission(cred, conference_id)
  \/ \E cred \in ValidCallers, user_id \in {2, NULL} :
        /\ Len(submissions) + Len(documents) + Len(reviews) < MaxListed
        /\ UploadDocument(cred, user_id)
  \/ \E cred \in AdminTokens, id \in SubmissionIdInputs, reviewer_id \in {2} :
        /\ Len(submissions) + Len(documents) + Len(reviews) < MaxListed
        /\ AssignReviewer(cred, id, reviewer_id)
  \/ \E cred \in {Token(SeedUsers[2])} : UpdateProfile(cred, "Renamed")

SpecList == Init /\ [][NextList]_vars

\* reviewer assignment and review creation
NextReview ==
  \/ \E cred \in {Token(SeedUsers[2])}, conference_id \in {1} :
        Len(submissions) < MaxSubmissions /\ CreateSubmission(cred, conference_id)
  \/ \E cred \in Callers, id \in SubmissionIdInputs,
        reviewer_id \in {1, 2, NULL, NoSuchId} :
        Len(reviews) < MaxReviews /\ AssignReviewer(cred, id, reviewer_id)
  \/ \E cred \in Callers, id \in SubmissionIdInputs \cup {NULL} :
        Len(reviews) < MaxReviews /\ CreateReview(cred, id, "Good paper", 5)
  \/ \E cred \in Callers, id \in SubmissionIdInputs : ListReviews(cred, id)

SpecReview == Init /\ [][NextReview]_vars

\* assign requests in flight together
NextRace ==
  \/ \E cred \in {Token(SeedUsers[2])}, conference_id \in {1} :
        Len(submissions) < MaxSubmissions /\ CreateSubmission(cred, conference_id)
  \/ \E cred \in {Token(SeedUsers[1]), Token(SeedUsers[2])},
        id \in SubmissionIdInputs, reviewer_id \in {2, 3} :
        /\ BagCardinality(pending) < MaxPending
        /\ Len(reviews) + BagCardinality(pending) < MaxReviews
        /\ ReceiveAssign(cred, id, reviewer_id)
  \/ \E req \in BagToSet(pending) : HandleAssign(req)

SpecRace == Init /\ [][NextRace]_vars

\* submission creation and the status writes
NextStatus ==
  \/ \E cred \in Callers : ListSubmissions(cred)
  \/ \E cred \in Callers, conference_id \in {1, NULL, NoSuchId} :
        Len(submissions) < MaxSubmissions /\ CreateSubmission(cred, conference_id)
  \/ \E cred \in Callers, id \in SubmissionIdInputs,
        status \in SubmissionStatusInputs : SetStatus(cred, id, status)

SpecStatus == Init /\ [][NextStatus]_vars

\* registration and profile updates; the users table holds MaxUsers rows
RegisterEmails == {"user@example.com", "new@example.com", NullText}

NextUsers ==
  \/ \E email \in RegisterEmails :
        /\ Len(register(users, email, "New User").users) <= MaxUsers
        /\ Register(email, "New User")
  \/ \E cred \in Callers : UpdateProfile(cred, "Renamed")

SpecUsers == Init /\ [][NextUsers]_vars

\* process starts on a new database file, with the routes that add users,
\* conferences and schedule rows; the routes answer once the process has started
Started == last.op # "none"

NextBoot ==
  \/ Bootstrap
  \/ \E email \in RegisterEmails :
        /\ Started
        /\ Len(register(users, email, "New User").users) <= MaxUsers
        /\ Register(email, "New User")
  \/ \E cred \in Callers :
        /\ Started
        /\ Len(conferences) < MaxConferences
        /\ CreateConference(cred, "Workshop")
  \/ \E cred \in Callers, conference_id \in {1} :
        /\ Started
        /\ Len(schedule) < Len(SeedSchedule) + MaxRows
        /\ CreateSchedule(cred, conference_id, "Panel")

SpecBoot == InitFresh /\ [][NextBoot]_vars

\* the writes to one row among several: two documents of user 2, a submission
\* of user 2 and its reviewer
NextAxes ==
  \/ \E cred \in {Token(SeedUsers[2])} :
        Len(documents) < MaxAxisDocuments /\ UploadDocument(cred, NULL)
  \/ \E cred \in {Token(SeedUsers[1])}, id \in 1..(MaxAxisDocuments + 1) :
        VerifyDocument(cred, id, "verified")
  \/ \E cred \in {Token(SeedUsers[2])}, id \in 1..(MaxAxisDocuments + 1) :
        AcceptDocument(cred, id)
  \/ \E cred \in {Token(SeedUsers[2])}, conference_id \in {1} :
        Len(submissions) < MaxSubmissions /\ CreateSubmission(cred, conference_id)
  \/ \E cred \in {Token(SeedUsers[1])}, id \in SubmissionIdInputs, reviewer_id \in {2} :
        Len(reviews) < MaxRows /\ AssignReviewer(cred, id, reviewer_id)
  \/ \E cred \in {Token(SeedUsers[1])}, id \in SubmissionIdInputs :
        SetStatus(cred, id, "accepted")

SpecAxes == Init /\ [][NextAxes]_vars

\* the admin's browser on the documents tab, and the server
NextClient ==
  \/ ClientMount
  \/ ClientUpload
  \/ \E id \in 1..MaxClicks : ClientVerify(id)
  \/ \E msg \in BagToSet(client.inflight) : ServerHandle(msg)
  \/ \E msg \in BagToSet(client.inflight) : ClientReceive(msg)

SpecClient == Init /\ [][NextClient]_vars

\* the admin's browser on the conferences tab, and the server
NextModal ==
  \/ ClientMount
  \/ \E conf \in Ids(conferences) : ClickViewSchedule(conf)
  \/ \E conf \in Ids(conferences) : ClickSubmitPaper(conf)
  \/ ClickClose
  \/ ClickCancel
  \/ ClientSubmit
  \/ \E msg \in BagToSet(client.inflight) : ServerHandle(msg)
  \/ \E msg \in BagToSet(client.inflight) : ClientReceive(msg)

SpecModal == Init /\ [][NextModal]_vars

----------------------------------------------------------------------------
(* Claims *)

\* a response whose status is none of those the server sends for success or
\* for another kind of failure
IsNotFound(res) ==
  res.status \notin {OK, BadRequest, Unauthorized, Forbidden, ServerError}

\* C1: whatever rows the store holds, the submission listing and the document
\* listing of a non-admin caller succeed and hold only rows whose user_id is
\* the caller's id.
C1_OwnershipScoping ==
  \A cred \in NonAdminTokens :
    LET subs == listSubmissions(users, conferences, submissions, reviews, cred)
        docs == listDocuments(users, documents, cred)
    IN /\ subs.res = Success
       /\ docs.res = Success
       /\ \A i \in DOMAIN subs.body : subs.body[i].user_id = cred.id
       /\ \A i \in DOMAIN docs.body : docs.body[i].user_id = cred.id

\* C1 witness: a non-admin has just listed the submissions; the listing holds a
\* row of theirs while the store also holds a submission and a document of
\* other owners.
C1_Witness ==
  /\ last.op = "listSubmissions"
  /\ last.cred \in NonAdminTokens
  /\ listSubmissions(users, conferences, submissions, reviews, last.cred).body # <<>>
  /\ \E i \in DOMAIN submissions :
        /\ submissions[i].user_id # last.cred.id
        /\ submissions[i].conference_id \in Ids(conferences)
  /\ \E i \in DOMAIN documents : documents[i].user_id # last.cred.id

\* C2 (as claimed): for an admin caller the submission listing holds every row
\* of submissions and the document listing every row of documents, each with
\* the name of its author or owner.
C2_AdminSeesEveryRow ==
  \A cred \in AdminTokens :
    LET subs == listSubmissions(users, conferences, submissions, reviews, cred)
        docs == listDocuments(users, documents, cred)
    IN /\ {subs.body[i].id : i \in DOMAIN subs.body} = Ids(submissions)
       /\ {docs.body[i].id : i \in DOMAIN docs.body} = Ids(documents)
       /\ \A i \in DOMAIN subs.body :
             subs.body[i].author_name = UserName(users, subs.body[i].user_id)
       /\ \A i \in DOMAIN docs.body :
             docs.body[i].user_name = UserName(users, docs.body[i].user_id)

\* the reviewer ids of a request that name a reviewer (NULL names none)
ReviewerIds == (1..MaxUsers) \cup {NoSuchId}

\* C3: when an admin's assignReviewer(S, R) succeeds and the admin calls
\* assignReviewer(S, R) again, the second call is refused with 400 "Reviewer
\* already assigned", changes nothing, and exactly one row holds (S, R).
C3_SecondAssignConflicts ==
  \A cred \in AdminTokens, s \in SubmissionIdInputs, r \in ReviewerIds :
    LET first == assignReviewer(foreign_keys, users, submissions, reviews,
                                cred, s, r)
        second == assignReviewer(foreign_keys, users, submissions,
                                 first.reviews, cred, s, r)
    IN first.res = Success =>
         /\ second.res = Res(BadRequest, "Reviewer already assigned")
         /\ second.reviews = first.reviews
         /\ PairCount(second.reviews, s, r) = 1

\* C3 witness: an admin's assign has just been refused as already assigned,
\* and the pair of an earlier assign is held by exactly one row.
C3_Witness ==
  /\ last.op = "assignReviewer"
  /\ last.cred \in AdminTokens
  /\ last.res = Res(BadRequest, "Reviewer already assigned")
  /\ \E r \in ReviewerIds : PairCount(reviews, last.id, r) = 1

\* C4 (as claimed): no two rows of reviews hold the same pair
\* (submission_id, reviewer_id) of a submission and a user that exist.
C4_PairUnique ==
  \A i, j \in DOMAIN reviews :
    (/\ i # j
     /\ reviews[i].submission_id \in Ids(submissions)
     /\ reviews[i].reviewer_id \in Ids(users)
     /\ reviews[i].submission_id = reviews[j].submission_id)
    => reviews[i].reviewer_id # reviews[j].reviewer_id

\* C5: with assign requests in flight together and handled in any order, no
\* two of them insert a row for the same pair (S, R): at most one row holds it.
C5_NoDoubleInsert ==
  \A s \in SubmissionIdInputs, r \in ReviewerIds : PairCount(reviews, s, r) <= 1

\* C5 witness: a request for (S, R) that came in when no row held the pair is
\* still in flight, and another request for the pair has just inserted its row.
C5_Witness ==
  /\ last.op = "assignReviewer"
  /\ last.res = Success
  /\ \E req \in BagToSet(pending) :
        /\ req.cred \in AdminTokens
        /\ req.submission_id = last.id
        /\ req.reviewer_id # NULL
        /\ ~existing(req.arrival, req.submission_id, req.reviewer_id)
        /\ existing(reviews, req.submission_id, req.reviewer_id)

AdminRoutes == {"setStatus", "assignReviewer", "verifyDocument"}

\* C6: a setStatus, assignReviewer or verify request of a caller whose token
\* carries a role other than admin is answered 403 Forbidden and leaves
\* submissions, reviews and documents as they were.
C6_AdminOnly ==
  [][(last'.op \in AdminRoutes /\ last'.cred \in NonAdminTokens)
       => (/\ last'.res = Res(Forbidden, "Forbidden")
           /\ UNCHANGED <<submissions, reviews, documents>>)]_vars

\* C6 witness: a non-admin has just been refused setting the status of a
\* submission that exists.
C6_Witness ==
  /\ last.op = "setStatus"
  /\ last.cred \in NonAdminTokens
  /\ last.res = Res(Forbidden, "Forbidden")
  /\ last.id \in Ids(submissions)

BearerRoutes ==
  {"listSubmissions", "createSubmission", "setStatus", "assignReviewer",
   "listDocuments", "uploadDocument", "verifyDocument", "acceptDocument",
   "updateProfile"}

\* C7: a request to a bearer-protected route with no token or with a token
\* that does not verify is answered 401 and leaves every table as it was.
C7_Unauthorized ==
  [][(last'.op \in BearerRoutes /\ last'.cred \in {Absent, Invalid})
       => (/\ last'.res.status = Unauthorized
           /\ UNCHANGED <<users, conferences, submissions, reviews, documents>>)]_vars

\* C7 witness: an accept with a bad token on a document that exists has just
\* been answered 401.
C7_Witness ==
  /\ last.op = "acceptDocument"
  /\ last.cred = Invalid
  /\ last.res.status = Unauthorized
  /\ last.id \in Ids(documents)

\* C8 (as claimed): an accept of another user's document, by a caller who does
\* not own it, is answered NotFound (and so is an accept of an id no document
\* has, which the route answers the same way).
C8_NonOwnerGetsNotFound ==
  (/\ last.op = "acceptDocument"
   /\ last.cred \in IssuedTokens
   /\ last.id \in Ids(documents)
   /\ documents[last.id].user_id \in Ids(users)
   /\ documents[last.id].user_id # last.cred.id)
  => IsNotFound(last.res)

\* C9: when the owner accepts a document and accepts it again, both calls
\* succeed, accepted is 1 after the first and the second changes no document.
C9_AcceptIdempotent ==
  \A cred \in IssuedTokens, d \in DOMAIN documents :
    documents[d].user_id = cred.id =>
      LET first == acceptDocument(documents, cred, d)
          second == acceptDocument(first.documents, cred, d)
      IN /\ first.res = Success
         /\ first.documents[d].accepted = 1
         /\ second.res = Success
         /\ second.documents = first.documents

\* C9 witness: the owner has just accepted a document, which is accepted.
C9_Witness ==
  /\ last.op = "acceptDocument"
  /\ last.res = Success
  /\ last.id \in Ids(documents)
  /\ documents[last.id].user_id = last.cred.id
  /\ documents[last.id].accepted = 1

\* C10: no step takes a document from accepted = 1 to another value, a new
\* document starts with accepted = 0, and the only step that changes accepted
\* is an accept of that document by the caller who owns it.
C10_AcceptedNeverReset ==
  [][/\ \A d \in DOMAIN documents :
           /\ d \in DOMAIN documents'
           /\ documents[d].accepted = 1 => documents'[d].accepted = 1
           /\ documents'[d].accepted # documents[d].accepted =>
                 /\ last'.op = "acceptDocument"
                 /\ last'.id = d
                 /\ last'.cred.id = documents[d].user_id
     /\ \A d \in DOMAIN documents' \ DOMAIN documents :
           documents'[d].accepted = 0]_vars

\* C10 witness: an admin has just verified a document that its owner had
\* accepted, and it is still accepted.
C10_Witness ==
  /\ last.op = "verifyDocument"
  /\ last.res = Success
  /\ last.id \in Ids(documents)
  /\ documents[last.id].status = "verified"
  /\ documents[last.id].accepted = 1

\* C11: in every reachable state a document whose accepted flag is 1 has type
\* admin_upload (an accept by the owner of a user_upload document does not set
\* the flag).
C11_AcceptedOnlyAdminUpload ==
  \A d \in DOMAIN documents :
     documents[d].accepted = 1 => documents[d].type = "admin_upload"

\* C12: in every reachable state the status of every submission (here: of
\* every submission made to an existing conference) is one of pending,
\* under_review, accepted, rejected: a status write with any other value is
\* refused and leaves the stored status as it was.
C12_StatusEnumClosed ==
  \A s \in DOMAIN submissions :
     submissions[s].conference_id \in Ids(conferences)
       => submissions[s].status \in SubmissionStatuses

\* C13 (as stated): the status of a submission is monotone: no step takes it
\* from under_review, accepted or rejected back to pending, and no step takes
\* it out of accepted or out of rejected (stated here of the submissions made
\* to an existing conference).
C13_StatusMonotone ==
  [][\A s \in DOMAIN submissions :
        submissions[s].conference_id \in Ids(conferences) =>
        /\ s \in DOMAIN submissions'
        /\ submissions[s].status \in {"under_review", "accepted", "rejected"}
             => submissions'[s].status # "pending"
        /\ submissions[s].status \in {"accepted", "rejected"}
             => submissions'[s].status = submissions[s].status]_vars

\* C13 (amended): the only step that changes the status of a submission is a
\* successful status write on that submission by an admin, so a status goes
\* back to pending, or leaves accepted or rejected, by such a write and by
\* nothing else.
C13_StatusChangesOnlyByAdminWrite ==
  [][\A s \in DOMAIN submissions :
        /\ s \in DOMAIN submissions'
        /\ submissions'[s].status # submissions[s].status
             => /\ last'.op = "setStatus"
                /\ last'.cred \in AdminTokens
                /\ last'.res = Success
                /\ last'.id = s]_vars

\* C13 witness: an admin's status write has just left a submission pending.
C13_Witness ==
  /\ last.op = "setStatus"
  /\ last.cred \in AdminTokens
  /\ last.id \in Ids(submissions)
  /\ submissions[last.id].status = "pending"

\* C14: whatever of the four statuses an existing submission has, a status
\* write by an admin with any of the four values succeeds, leaves that
\* submission with the value written and with its other columns as they were,
\* and leaves every other submission as it was (all 16 transitions are enabled).
C14_UnorderedStatusWrites ==
  \A cred \in AdminTokens, s \in DOMAIN submissions, status \in SubmissionStatuses :
     submissions[s].status \in SubmissionStatuses =>
       LET r == setStatus(submissions, cred, s, status)
       IN /\ r.res = Success
          /\ DOMAIN r.submissions = DOMAIN submissions
          /\ r.submissions[s] = [submissions[s] EXCEPT !.status = status]
          /\ \A t \in DOMAIN submissions \ {s} : r.submissions[t] = submissions[t]

\* C14 witness: an admin's status write has just left a submission rejected,
\* a status from which the four writes are still enabled.
C14_Witness ==
  /\ last.op = "setStatus"
  /\ last.cred \in AdminTokens
  /\ last.res = Success
  /\ last.id \in Ids(submissions)
  /\ submissions[last.id].status = "rejected"

\* C15: a status write by an admin on a submission id that does not exist, and
\* a verify by an admin on a document id that does not exist, are each answered
\* with a not-found failure (that they change no row is not in question: the
\* UPDATE matches nothing).
C15_AbsentRecordNotFound ==
  /\ (/\ last.op = "setStatus"
      /\ last.cred \in AdminTokens
      /\ last.id \notin Ids(submissions)) => IsNotFound(last.res)
  /\ (/\ last.op = "verifyDocument"
      /\ last.cred \in AdminTokens
      /\ last.id \notin Ids(documents)) => IsNotFound(last.res)

\* C16: an assignment by an admin to a submission id that does not exist is
\* answered with a not-found failure, and in every reachable state every
\* review row references an existing submission and an existing user.
C16_AssignReferencesExist ==
  /\ (/\ last.op = "assignReviewer"
      /\ last.cred \in AdminTokens
      /\ last.id \notin Ids(submissions)) => IsNotFound(last.res)
  /\ \A r \in DOMAIN reviews :
        /\ reviews[r].submission_id \in Ids(submissions)
        /\ reviews[r].reviewer_id \in Ids(users)

\* C17: in every reachable state, a submission creation by an authenticated
\* caller that names an existing conference succeeds, and a creation that
\* succeeds adds exactly one row, with status pending and with the caller's id
\* as user_id, after the existing rows, which stay as they were; one that
\* fails adds nothing.
C17_CreateSubmission ==
  \A cred \in ValidCallers, conference_id \in Ids(conferences) \cup {NULL, NoSuchId} :
     LET r == createSubmission(foreign_keys, conferences, submissions, cred,
                               conference_id)
         n == Len(submissions)
     IN /\ conference_id \in Ids(conferences) => r.res = Success
        /\ r.res = Success =>
             /\ Len(r.submissions) = n + 1
             /\ \A s \in 1..n : r.submissions[s] = submissions[s]
             /\ r.submissions[n + 1] =
                  [id |-> n + 1, conference_id |-> conference_id,
                   user_id |-> cred.id, status |-> "pending"]
        /\ r.res # Success => r.submissions = submissions

\* C17 witness: a non-admin caller has just created a submission to an
\* existing conference, and the new row is pending and theirs.
C17_Witness ==
  /\ last.op = "createSubmission"
  /\ last.cred \in NonAdminTokens
  /\ last.res = Success
  /\ submissions # <<>>
  /\ submissions[Len(submissions)].user_id = last.cred.id
  /\ submissions[Len(submissions)].conference_id \in Ids(conferences)
  /\ submissions[Len(submissions)].status = "pending"

\* C18: in every reachable state every submission references an existing
\* conference (a creation that names none, or one that does not exist, is
\* refused and adds no row).
C18_SubmissionReferencesConference ==
  \A s \in DOMAIN submissions : submissions[s].conference_id \in Ids(conferences)

\* C19: in every reachable state, an upload by an admin that names an existing
\* user as its target succeeds and adds exactly one document, owned by the
\* target, with type admin_upload, status pending and accepted 0, after the
\* existing rows, which stay as they were.
C19_AdminUploadForTarget ==
  \A cred \in AdminTokens, user_id \in Ids(users) :
     LET r == uploadDocument(foreign_keys, users, documents, cred, user_id)
         n == Len(documents)
     IN /\ r.res = Success
        /\ Len(r.documents) = n + 1
        /\ \A d \in 1..n : r.documents[d] = documents[d]
        /\ r.documents[n + 1] =
             [id |-> n + 1, user_id |-> user_id, status |-> "pending",
              type |-> "admin_upload", accepted |-> 0]

\* C19 witness: an admin has just uploaded a document for another user, and
\* the new row is an admin_upload owned by that user, pending and not accepted.
C19_Witness ==
  /\ last.op = "uploadDocument"
  /\ last.cred \in AdminTokens
  /\ last.res = Success
  /\ documents # <<>>
  /\ documents[Len(documents)].user_id \in Ids(users) \ {last.cred.id}
  /\ documents[Len(documents)].type = "admin_upload"
  /\ documents[Len(documents)].status = "pending"
  /\ documents[Len(documents)].accepted = 0

\* C20: in every reachable state, an upload by a non-admin caller, whatever
\* target it names or none, and an upload by an admin that names no target,
\* succeed and add exactly one document, owned by the caller, with type
\* user_upload, status pending and accepted 0.
C20_OtherUploadsOwnedByCaller ==
  \A cred \in ValidCallers :
     \A user_id \in (IF cred \in AdminTokens THEN {NULL}
                     ELSE Ids(users) \cup {NULL, NoSuchId}) :
        LET r == uploadDocument(foreign_keys, users, documents, cred, user_id)
            n == Len(documents)
        IN /\ r.res = Success
           /\ Len(r.documents) = n + 1
           /\ \A d \in 1..n : r.documents[d] = documents[d]
           /\ r.documents[n + 1] =
                [id |-> n + 1, user_id |-> cred.id, status |-> "pending",
                 type |-> "user_upload", accepted |-> 0]

\* C21: in every reachable state the status of every document (here: of every
\* document owned by an existing user) is one of pending, verified, rejected:
\* a verify with any other value is refused and leaves the stored status as
\* it was.
C21_DocumentStatusEnumClosed ==
  \A d \in DOMAIN documents :
     documents[d].user_id \in Ids(users)
       => documents[d].status \in DocumentStatuses

\* C22: whatever status an existing document has, a verify by an admin with
\* verified or with rejected succeeds and leaves that document with the value
\* written, and the same verify applied again to the result answers the same
\* and leaves the same table.
C22_ReverifyOverwrites ==
  \A cred \in AdminTokens, d \in DOMAIN documents, status \in {"verified", "rejected"} :
     LET r == verifyDocument(documents, cred, d, status)
     IN /\ r.res = Success
        /\ DOMAIN r.documents = DOMAIN documents
        /\ r.documents[d].status = status
        /\ verifyDocument(r.documents, cred, d, status) = r

\* C22 witness: an admin's verify has just left a document rejected, a status
\* from which a further verify still overwrites.
C22_Witness ==
  /\ last.op = "verifyDocument"
  /\ last.cred \in AdminTokens
  /\ last.res = Success
  /\ last.id \in Ids(documents)
  /\ documents[last.id].status = "rejected"

\* C23: no step changes the role of a user row that exists, a user row that a
\* step adds has role user, and so the set of admin users never changes.
C23_RoleImmutable ==
  [][/\ \A u \in DOMAIN users :
           /\ u \in DOMAIN users'
           /\ users'[u].role = users[u].role
     /\ \A u \in DOMAIN users' \ DOMAIN users : users'[u].role = "user"
     /\ {u \in DOMAIN users' : users'[u].role = "admin"}
          = {u \in DOMAIN users : users[u].role = "admin"}]_vars

\* C23 witness: a user has registered since the seed and a seeded user has
\* just updated their profile; the registered row has role user and the
\* updated row kept its role.
C23_Witness ==
  /\ last.op = "updateProfile"
  /\ last.res = Success
  /\ Len(users) > Len(SeedUsers)
  /\ users[Len(users)].role = "user"
  /\ users[last.cred.id].name = "Renamed"
  /\ users[last.cred.id].role = SeedUsers[last.cred.id].role

\* C24: in every reachable state no two user rows share an email, a
\* registration with an email that a user row already has is answered with the
\* conflict failure and adds no row, and a registration with an email no row
\* has succeeds, adds exactly one row with that email and role user, and
\* returns a token carrying the new row's id and role user.
C24_RegisterUniqueEmail ==
  /\ \A u, v \in DOMAIN users :
        (u # v /\ users[u].email # NullText) => users[u].email # users[v].email
  /\ \A email \in RegisterEmails \ {NullText} :
        LET r == register(users, email, "New User")
            n == Len(users)
        IN IF \E u \in DOMAIN users : users[u].email = email
             THEN /\ r.res = Res(BadRequest, "Email already exists")
                  /\ r.users = users
             ELSE /\ r.res = Success
                  /\ Len(r.users) = n + 1
                  /\ \A u \in 1..n : r.users[u] = users[u]
                  /\ r.users[n + 1].id = n + 1
                  /\ r.users[n + 1].email = email
                  /\ r.users[n + 1].role = "user"
                  /\ r.token = [kind |-> "valid", id |-> n + 1, role |-> "user"]

\* C24 witness: a user has registered since the seed, and a registration with
\* an email in use has just been refused.
C24_Witness ==
  /\ last.op = "register"
  /\ last.res = Res(BadRequest, "Email already exists")
  /\ Len(users) > Len(SeedUsers)
  /\ users[Len(users)].email = "new@example.com"

\* C25: in every reachable state, a non-admin caller who reads the reviews of
\* an existing submission owned by another user is refused or is given no
\* review row.
C25_ReviewsDeniedToNonOwner ==
  \A cred \in NonAdminTokens, s \in DOMAIN submissions :
     (submissions[s].user_id \in Ids(users) \ {cred.id}) =>
        LET r == listReviews(users, reviews, cred, s)
        IN r.res # Success \/ r.body = <<>>

\* C26: a run of the start-up code leaves at least one admin user, and a run
\* on a store that already has an admin user leaves users, conferences and
\* schedule as they were; a run on a store with none inserts the seed rows.
C26_BootstrapIdempotent ==
  [][last'.op = "bootstrap" =>
       /\ \E u \in DOMAIN users' : users'[u].role = "admin"
       /\ IF \E u \in DOMAIN users : users[u].role = "admin"
            THEN UNCHANGED <<users, conferences, schedule>>
            ELSE /\ Len(users') = Len(users) + Len(SeedUsers)
                 /\ Len(conferences') = Len(conferences) + Len(SeedConferences)
                 /\ Len(schedule') = Len(schedule) + Len(SeedSchedule)]_vars

\* C26 witness: the process has just started again on a store that was seeded
\* and to which a user had since registered.
C26_Witness ==
  /\ last.op = "bootstrap"
  /\ Len(users) > Len(SeedUsers)
  /\ Len(conferences) >= Len(SeedConferences)
  /\ Len(schedule) >= Len(SeedSchedule)

\* C27: in every reachable state, an accept of an existing document by a
\* caller who is not its owner, an admin included, leaves the documents table
\* as it was.
C27_NonOwnerAcceptNoEffect ==
  \A cred \in Callers, d \in DOMAIN documents :
     documents[d].user_id # cred.id =>
        acceptDocument(documents, cred, d).documents = documents

\* C27 witness: an admin has just sent an accept for a document owned by
\* another user, and the document is still not accepted.
C27_Witness ==
  /\ last.op = "acceptDocument"
  /\ last.cred \in AdminTokens
  /\ last.id \in Ids(documents)
  /\ documents[last.id].user_id \in Ids(users) \ {last.cred.id}
  /\ documents[last.id].accepted = 0

\* C28: a verify changes at most the status column of the document it
\* addresses, an accept at most the accepted column of the document it
\* addresses, and a status write at most the status column of the submission
\* it addresses; each leaves every other row of its table, and the other
\* tables, the reviews among them, as they were.
C28_SingleRowSingleColumn ==
  [][/\ last'.op = "verifyDocument" =>
          /\ DOMAIN documents' = DOMAIN documents
          /\ \A d \in DOMAIN documents :
                documents'[d] =
                  IF d = last'.id
                    THEN [documents[d] EXCEPT !.status = documents'[d].status]
                    ELSE documents[d]
          /\ UNCHANGED <<users, conferences, submissions, reviews, schedule>>
     /\ last'.op = "acceptDocument" =>
          /\ DOMAIN documents' = DOMAIN documents
          /\ \A d \in DOMAIN documents :
                documents'[d] =
                  IF d = last'.id
                    THEN [documents[d] EXCEPT !.accepted = documents'[d].accepted]
                    ELSE documents[d]
          /\ UNCHANGED <<users, conferences, submissions, reviews, schedule>>
     /\ last'.op = "setStatus" =>
          /\ DOMAIN submissions' = DOMAIN submissions
          /\ \A s \in DOMAIN submissions :
                submissions'[s] =
                  IF s = last'.id
                    THEN [submissions[s] EXCEPT !.status = submissions'[s].status]
                    ELSE submissions[s]
          /\ UNCHANGED <<users, conferences, documents, reviews, schedule>>]_vars

\* C28 witness: of two documents, the one its owner had accepted has just been
\* verified and is still accepted, the other is still pending and not
\* accepted, and the review row of the accepted submission is still there.
C28_Witness ==
  /\ last.op = "verifyDocument"
  /\ last.res = Success
  /\ Len(documents) = 2
  /\ last.id \in Ids(documents)
  /\ documents[last.id].status = "verified"
  /\ documents[last.id].accepted = 1
  /\ \E d \in DOMAIN documents :
        documents[d].status = "pending" /\ documents[d].accepted = 0
  /\ \E s \in DOMAIN submissions : submissions[s].status = "accepted"
  /\ reviews # <<>>

\* C29: whenever the client is mounted and none of its requests or responses
\* is in flight, its documents list and its submissions list are the listings
\* the server would return to it in that state.
C29_ClientConverges ==
  (client.mounted /\ client.inflight = EmptyBag) =>
     /\ client.documents = listDocuments(users, documents, ClientToken).body
     /\ client.submissions =
           listSubmissions(users, conferences, submissions, reviews,
                           ClientToken).body

\* C30: the schedule modal and the submit modal are never shown together; a
\* step that closes the submit modal leaves the schedule modal of the same
\* conference shown; and selectedConf is cleared only while the schedule modal
\* is shown (by its Close), never by the closing of the submit modal.
C30_ModalState ==
  [][/\ ~(ScheduleModalShown(client') /\ SubmitModalShown(client'))
     /\ (SubmitModalShown(client) /\ ~SubmitModalShown(client'))
          => /\ ScheduleModalShown(client')
             /\ client'.selectedConf = client.selectedConf
     /\ (client.selectedConf # NULL /\ client'.selectedConf = NULL)
          => /\ ScheduleModalShown(client)
             /\ ~SubmitModalShown(client')
             /\ ~ScheduleModalShown(client')]_vars

\* C30 witness: the submission sent from the submit modal has been stored and
\* refetched, the submit modal is closed, and the schedule modal of the
\* conference submitted to is shown.
C30_Witness ==
  /\ ScheduleModalShown(client)
  /\ ~SubmitModalShown(client)
  /\ client.submissions # <<>>
  /\ client.submissions[1].conference_id = client.selectedConf
  /\ client.inflight = EmptyBag

====
